---- MODULE Spec2Model ----
(***************************************************************************)
(* Model of the subprocess streaming and control layer of SpecStudio's     *)
(* Tauri backend (src-tauri/src/shell.rs): the ProcessRegistry, the        *)
(* PTY-based and pipe-based spawn paths with their reader and waiter       *)
(* threads, input injection and cancellation.                              *)
(*                                                                         *)
(* Every step that touches state shared between threads (the registry map, *)
(* the temp directory, the event sink, the wall clock, a child process) is *)
(* one action; thread-local computation is folded into the step before it. *)
(*                                                                         *)
(* The event sink is kept projected per run: events[r] is the sequence of  *)
(* the events emitted by run r's threads, plus the "input" events of the   *)
(* input calls that wrote to run r's writer.  The timestamp field of an    *)
(* event is not kept.                                                      *)
(***************************************************************************)
EXTENDS Integers, Sequences, FiniteSets, TLC

\* Bounds of the model.
MaxRuns == 2        \* spawn calls
MaxClock == 1       \* wall-clock milliseconds that can elapse
MaxChunks == 1      \* non-empty reads a child can cause per stream
MaxInputs == 2      \* send_process_input calls
MaxParts == 2       \* writes that write_all makes for one input
MaxStream == 3      \* bytes a child writes to its standard output
BufLen == 2         \* bytes one read of the stdout pump can return
MaxEntries == 2     \* entries the directory walker yields
MaxLines == 2       \* lines of a file
MaxLimit == 2       \* largest max_results passed to a search
MaxCancels == 1     \* cancel_streaming_processes calls
MaxFaults == 1      \* environment failures: I/O errors, a child without a pid

Runs == 1..MaxRuns
Callers == 1..MaxInputs

PtyActions == {"create_code", "gen_tests"}
NpmActions == {"run_tests", "run_app"}
ActionNames == PtyActions \cup NpmActions \cup {"deploy"}

\* Exit codes a child can exit with by itself.
ChildExitCodes == {0, 2}

\* The Err(String) a spawn call can return: the text before the cause.
ErrNoSpec == "specContent is required for this action"
ErrWrite == "Failed to write temp prompt file"
ErrPty == "Failed to create PTY"
ErrSpawn == "Failed to spawn claude"
ErrReader == "Failed to clone PTY reader"
ErrWriter == "Failed to take PTY writer"
ErrNpm == "Failed to spawn npm"
ErrUnknown == "Unknown streaming action"

SpawnErrors == {ErrNoSpec, ErrWrite, ErrPty, ErrSpawn, ErrReader, ErrWriter,
                ErrNpm, ErrUnknown}

VARIABLES
    now,          \* SystemTime::now() in milliseconds
    processes,    \* ProcessRegistry.processes: id -> ProcessHandle
    files,        \* the temp directory: path -> run whose prompt it holds
    events,       \* the event sink, per run: the events that reached it
    pc,           \* per run: position of the spawn call
    spawnRet,     \* per run: result of the spawn call: "ok" or the error
    procId,       \* per run: process_id, once computed
    path,         \* per run: "pty" or "npm" once the action is matched
    child,        \* per run: the child process
    childPid,     \* per run: Option<u32> the PTY child reports, as a set
    outLeft,      \* per run: non-empty reads the stdout/PTY stream can still give
    errLeft,      \* per run: non-empty reads the stderr stream can still give
    rdOut,        \* per run: the PTY reader / stdout thread
    rdErr,        \* per run: the stderr thread
    wt,           \* per run: position of the waiter thread
    exitCode,     \* per run: exit_code computed by the waiter
    sig,          \* the process arguments with which `kill -9` has been run
    killedLog,    \* the counts kill_all returned, as the cancel handler logs them
    faults,       \* environment failures that have happened so far
    inp,          \* per caller: position of send_process_input
    inpId,        \* per caller: process_id it resolved, as a set
    inpWriter,    \* per caller: run whose writer handle it holds, as a set
    inpRet,       \* per caller: result of the call
    writerLock,   \* runs whose writer mutex is held
    chan,         \* per run: the writes that reached its channel, <<call, part>>
    inpSeen,      \* per input call: the run whose record its id named when picked
    cancelRet,    \* the responses of the cancel_streaming_processes calls
    sinkUp,       \* whether app.emit reaches the frontend (fixed per behaviour)
    fnArg,        \* argument of the helper function under evaluation
    fnRes         \* its result, as a set

vars == <<now, processes, files, events, pc, spawnRet, procId, path, child,
          childPid, outLeft, errLeft, rdOut, rdErr, wt,
          exitCode, sig, killedLog, faults, inp, inpId, inpWriter, inpRet,
          writerLock, chan, inpSeen, cancelRet, sinkUp, fnArg, fnRes>>

\* What no step of the process layer changes: the frontend's state and the
\* evaluation of the helper functions.
constVars == <<sinkUp, fnArg, fnRes>>

runVars == <<pc, spawnRet, procId, path, childPid, wt, exitCode>>
streamVars == <<outLeft, errLeft, rdOut, rdErr>>
inpVars == <<inp, inpId, inpWriter, inpRet, writerLock, chan, inpSeen>>

----------------------------------------------------------------------------
\* Values

EmptyMap == [k \in {} |-> {}]

\* format!("proc_{}", get_timestamp())
ProcIdOf(ts) == <<"proc_", ts>>

\* temp_dir.join(format!("specstudio_prompt_{}.txt", process_id))
TempPath(id) == <<"specstudio_prompt_", id, ".txt">>

get_timestamp == now

\* The OS pid of run r's child.
OsPid(r) == r

NoChild == [st |-> "none", code |-> 0, signaled |-> FALSE]

Event(type, tag, val) == [type |-> type, tag |-> tag, val |-> val]

\* emit_stream_event(app, type, data), on the events of run r: the result
\* of app.emit is dropped, and the event is in the sink if the emit went
\* through.
emit_stream_event(ev, r, type, tag, val) ==
    IF sinkUp THEN [ev EXCEPT ![r] = Append(@, Event(type, tag, val))] ELSE ev

----------------------------------------------------------------------------
\* ProcessRegistry

\* enum ProcessWriter: the variant and the run whose channel the handle owns.
ProcessWriter(kind, r) == [kind |-> kind, run |-> r]

ProcessHandle(kind, r, pid) ==
    [writer |-> ProcessWriter(kind, r), child_pid |-> pid]

Insert(reg, id, h) ==
    [k \in DOMAIN reg \cup {id} |-> IF k = id THEN h ELSE reg[k]]

\* HashMap::insert: an existing entry for id is replaced.
register_pty(reg, id, r, pid) == Insert(reg, id, ProcessHandle("Pty", r, pid))

\* child_pid is always Some(child.id()) here.
register(reg, id, r) == Insert(reg, id, ProcessHandle("Stdin", r, {OsPid(r)}))

\* Option<handle>, as a set.
get_stdin(reg, id) ==
    IF id \in DOMAIN reg /\ reg[id].writer.kind = "Stdin"
    THEN {reg[id].writer} ELSE {}

\* A lookup that hands out a handle for an id the map does not hold.
get_pty_writer_Dangling(reg, id) ==
    IF id \in DOMAIN reg /\ reg[id].writer.kind = "Pty"
    THEN {reg[id].writer} ELSE {ProcessWriter("Pty", 1)}

get_pty_writer(reg, id) ==
    IF id \in DOMAIN reg /\ reg[id].writer.kind = "Pty"
    THEN {reg[id].writer} ELSE {}

\* A removal that, for an absent id, drops some other entry.
remove_SomeWhenAbsent(reg, id) ==
    IF id \in DOMAIN reg \/ DOMAIN reg = {}
    THEN [k \in DOMAIN reg \ {id} |-> reg[k]]
    ELSE [k \in DOMAIN reg \ {CHOOSE x \in DOMAIN reg : TRUE} |-> reg[k]]

remove(reg, id) == [k \in DOMAIN reg \ {id} |-> reg[k]]

\* kill_all: the pids `kill -9` is issued to, the map after drain(), and the
\* count returned.
kill_all_pids(reg) == UNION {reg[id].child_pid : id \in DOMAIN reg}

\* The process argument of kill(1), format!("{}", pid): the pid itself.
kill_arg(pid) == pid

\* kill(1): a positive argument names the process with that pid, a negative
\* one every process of the process group with that id.
kill_reaches_process(arg, pid) == arg = pid
kill_reaches_group(arg, pgid) == arg = 0 - pgid

\* The commands kill_all runs.
kill_all_args(reg) == {kill_arg(pid) : pid \in kill_all_pids(reg)}

\* A kill_all that counts every record it drains.
kill_all_count_AllRecords(reg) == Cardinality(DOMAIN reg)

\* A kill_all that removes only the records it signalled.
kill_all_drain_SignalledOnly(reg) ==
    [id \in {i \in DOMAIN reg : reg[i].child_pid = {}} |-> reg[id]]

kill_all_drain(reg) == EmptyMap

kill_all_count(reg) == Cardinality({id \in DOMAIN reg : reg[id].child_pid # {}})

\* A lookup that can also return the id a clock value of 0 gives, tracked or
\* not.
get_active_process_id_Stale(reg) == DOMAIN reg \cup {ProcIdOf(0)}

\* keys().next(): any key of the map, None when it is empty.
get_active_process_id(reg) == DOMAIN reg

----------------------------------------------------------------------------
Init ==
    /\ now = 0
    /\ processes = EmptyMap
    /\ files = EmptyMap
    /\ events = [r \in Runs |-> <<>>]
    /\ pc = [r \in Runs |-> "idle"]
    /\ spawnRet = [r \in Runs |-> "none"]
    /\ procId = [r \in Runs |-> {}]
    /\ path = [r \in Runs |-> "none"]
    /\ child = [r \in Runs |-> NoChild]
    /\ childPid = [r \in Runs |-> {}]
    /\ outLeft = [r \in Runs |-> 0]
    /\ errLeft = [r \in Runs |-> 0]
    /\ rdOut = [r \in Runs |-> "none"]
    /\ rdErr = [r \in Runs |-> "none"]
    /\ wt = [r \in Runs |-> "none"]
    /\ exitCode = [r \in Runs |-> 0]
    /\ sig = {}
    /\ killedLog = <<>>
    /\ faults = 0
    /\ inp = [c \in Callers |-> "idle"]
    /\ inpId = [c \in Callers |-> {}]
    /\ inpWriter = [c \in Callers |-> {}]
    /\ inpRet = [c \in Callers |-> "none"]
    /\ writerLock = {}
    /\ chan = [r \in Runs |-> <<>>]
    /\ inpSeen = [c \in Callers |-> {}]
    /\ cancelRet = <<>>
    /\ sinkUp \in BOOLEAN
    /\ fnArg = <<>>
    /\ fnRes = {}

\* The state of the process-control layer before any command is invoked.
InitIdle ==
    /\ now = 0
    /\ processes = EmptyMap
    /\ files = EmptyMap
    /\ events = [r \in Runs |-> <<>>]
    /\ pc = [r \in Runs |-> "idle"]
    /\ spawnRet = [r \in Runs |-> "none"]
    /\ procId = [r \in Runs |-> {}]
    /\ path = [r \in Runs |-> "none"]
    /\ child = [r \in Runs |-> NoChild]
    /\ childPid = [r \in Runs |-> {}]
    /\ outLeft = [r \in Runs |-> 0]
    /\ errLeft = [r \in Runs |-> 0]
    /\ rdOut = [r \in Runs |-> "none"]
    /\ rdErr = [r \in Runs |-> "none"]
    /\ wt = [r \in Runs |-> "none"]
    /\ exitCode = [r \in Runs |-> 0]
    /\ sig = {}
    /\ killedLog = <<>>
    /\ faults = 0
    /\ inp = [c \in Callers |-> "idle"]
    /\ inpId = [c \in Callers |-> {}]
    /\ inpWriter = [c \in Callers |-> {}]
    /\ inpRet = [c \in Callers |-> "none"]
    /\ writerLock = {}
    /\ chan = [r \in Runs |-> <<>>]
    /\ inpSeen = [c \in Callers |-> {}]
    /\ cancelRet = <<>>
    /\ sinkUp = TRUE

TheId(r) == CHOOSE id \in procId[r] : TRUE

\* A `?` that records the error and lets the call go on.
Try_GoesOn(r, res, next) ==
    /\ pc' = [pc EXCEPT ![r] = next]
    /\ spawnRet' = [spawnRet EXCEPT ![r] = IF res = "ok" THEN @ ELSE res]

\* `?` on a Result: the call goes on to step next, or returns the error.
Try(r, res, next) ==
    IF res = "ok"
    THEN /\ pc' = [pc EXCEPT ![r] = next]
         /\ UNCHANGED spawnRet
    ELSE /\ pc' = [pc EXCEPT ![r] = "returned"]
         /\ spawnRet' = [spawnRet EXCEPT ![r] = res]

\* A step whose outcome the environment decides: it goes well (ok), or it is
\* one more environment failure.
Outcome(ok) ==
    /\ ok \/ faults < MaxFaults
    /\ faults' = IF ok THEN faults ELSE faults + 1

----------------------------------------------------------------------------
\* The wall clock advances.  The clock is read by the spawn calls only, and
\* time counts from the first read.
Tick ==
    /\ now < MaxClock
    /\ \E r \in Runs : pc[r] = "idle"
    /\ \E r \in Runs : pc[r] # "idle"
    /\ now' = now + 1
    /\ UNCHANGED <<processes, files, events, child, sig, killedLog, cancelRet, constVars, faults>>
    /\ UNCHANGED <<runVars, streamVars, inpVars>>

----------------------------------------------------------------------------
\* spawn_streaming_process

\* A match that lets a PTY action through without spec content.
MatchAction_SpecOptional(a, hasSpec) ==
    IF a \in PtyActions THEN "write_prompt"
    ELSE IF a \in NpmActions THEN "npm_spawn"
    ELSE ErrUnknown

\* A match that takes every other action name for an npm action.
MatchAction_UnknownAsNpm(a, hasSpec) ==
    IF a \in PtyActions
    THEN (IF hasSpec THEN "write_prompt" ELSE ErrNoSpec)
    ELSE "npm_spawn"

\* match action.as_str(): the step the call goes on to, or the error it
\* returns.  spec_content.ok_or(..)? is the first statement of the PTY arm.
MatchAction(a, hasSpec) ==
    IF a \in PtyActions
    THEN (IF hasSpec THEN "write_prompt" ELSE ErrNoSpec)
    ELSE IF a \in NpmActions THEN "npm_spawn"
    ELSE ErrUnknown

\* Lines 329-346, 457-466: the id is taken from the clock, then the action is
\* matched; the PTY actions need spec_content.  Run r is the r-th spawn call
\* to read the clock.
SpawnBegin(r, a, hasSpec) ==
    /\ pc[r] = "idle"
    /\ \A q \in Runs : q < r => pc[q] # "idle"
    /\ procId' = [procId EXCEPT ![r] = {ProcIdOf(get_timestamp)}]
    /\ IF MatchAction(a, hasSpec) \in SpawnErrors
       THEN /\ pc' = [pc EXCEPT ![r] = "returned"]
            /\ spawnRet' = [spawnRet EXCEPT ![r] = MatchAction(a, hasSpec)]
            /\ UNCHANGED path
       ELSE /\ pc' = [pc EXCEPT ![r] = MatchAction(a, hasSpec)]
            /\ path' = [path EXCEPT ![r] =
                    IF MatchAction(a, hasSpec) = "write_prompt" THEN "pty" ELSE "npm"]
            /\ UNCHANGED spawnRet
    /\ UNCHANGED <<now, processes, files, events, child, sig, killedLog, cancelRet, constVars, faults>>
    /\ UNCHANGED <<childPid, wt, exitCode>>
    /\ UNCHANGED <<streamVars, inpVars>>

\* fs::write(&temp_path, &prompt)
WritePrompt(r, ok) ==
    /\ pc[r] = "write_prompt"
    /\ Outcome(ok)
    /\ files' = IF ok THEN Insert(files, TempPath(TheId(r)), r) ELSE files
    /\ Try(r, IF ok THEN "ok" ELSE ErrWrite, "spawn_child")
    /\ UNCHANGED <<now, processes, events, child, sig, killedLog, cancelRet, constVars>>
    /\ UNCHANGED <<procId, path, childPid, wt, exitCode>>
    /\ UNCHANGED <<streamVars, inpVars>>

\* openpty and slave.spawn_command: either can fail, and then the call
\* returns the error; otherwise the child runs.
SpawnChild(r, res, pid) ==
    /\ pc[r] = "spawn_child"
    /\ Outcome(res = "ok" /\ pid # {})
    /\ IF res = "ok"
       THEN /\ child' = [child EXCEPT ![r] = [st |-> "alive", code |-> 0, signaled |-> FALSE]]
            /\ childPid' = [childPid EXCEPT ![r] = pid]
            /\ outLeft' = [outLeft EXCEPT ![r] = MaxChunks]
       ELSE UNCHANGED <<child, childPid, outLeft>>
    /\ Try(r, res, "emit_started")
    /\ UNCHANGED <<now, processes, files, events, sig, killedLog, cancelRet, constVars>>
    /\ UNCHANGED <<procId, path, wt, exitCode>>
    /\ UNCHANGED <<errLeft, rdOut, rdErr, inpVars>>

\* child_pid.unwrap_or(0)
PidOrZero(pid) == IF pid = {} THEN 0 ELSE CHOOSE p \in pid : TRUE

\* Line 391 emits "Process started (PID: ..)"; then try_clone_reader and
\* take_writer, either of which can fail and end the call with an error.
EmitStarted(r, res) ==
    /\ pc[r] = "emit_started"
    /\ Outcome(res = "ok")
    /\ events' = emit_stream_event(events, r, "output", "started", PidOrZero(childPid[r]))
    /\ Try(r, res, "register")
    /\ UNCHANGED <<now, processes, files, child, sig, killedLog, cancelRet, constVars>>
    /\ UNCHANGED <<procId, path, childPid, wt, exitCode>>
    /\ UNCHANGED <<streamVars, inpVars>>

\* Lines 399-454: register_pty, start the reader and the waiter thread,
\* return started=true.
RegisterPty(r) ==
    /\ pc[r] = "register"
    /\ processes' = register_pty(processes, TheId(r), r, childPid[r])
    /\ rdOut' = [rdOut EXCEPT ![r] = "running"]
    /\ wt' = [wt EXCEPT ![r] = "join"]
    /\ pc' = [pc EXCEPT ![r] = "returned"]
    /\ spawnRet' = [spawnRet EXCEPT ![r] = "ok"]
    /\ UNCHANGED <<now, files, events, child, sig, killedLog, cancelRet, constVars, faults>>
    /\ UNCHANGED <<procId, path, childPid, exitCode>>
    /\ UNCHANGED <<outLeft, errLeft, rdErr, inpVars>>

\* spawn_npm_command: cmd.spawn(), the stdout and stderr threads, the waiter
\* thread, started=true.  The registry parameter is not used.
NpmSpawn(r, ok) ==
    /\ pc[r] = "npm_spawn"
    /\ Outcome(ok)
    /\ pc' = [pc EXCEPT ![r] = "returned"]
    /\ IF ok
       THEN /\ child' = [child EXCEPT ![r] = [st |-> "alive", code |-> 0, signaled |-> FALSE]]
            /\ outLeft' = [outLeft EXCEPT ![r] = MaxChunks]
            /\ errLeft' = [errLeft EXCEPT ![r] = MaxChunks]
            /\ rdOut' = [rdOut EXCEPT ![r] = "running"]
            /\ rdErr' = [rdErr EXCEPT ![r] = "running"]
            /\ wt' = [wt EXCEPT ![r] = "join"]
            /\ spawnRet' = [spawnRet EXCEPT ![r] = "ok"]
       ELSE /\ spawnRet' = [spawnRet EXCEPT ![r] = ErrNpm]
            /\ UNCHANGED <<child, outLeft, errLeft, rdOut, rdErr, wt>>
    /\ UNCHANGED <<now, processes, files, events, sig, killedLog, cancelRet, constVars>>
    /\ UNCHANGED <<procId, path, childPid, exitCode>>
    /\ UNCHANGED inpVars

----------------------------------------------------------------------------
\* The child process (the environment of the program)

\* The child exits by itself with code c.
ChildExit(r, c) ==
    /\ child[r].st = "alive"
    /\ child' = [child EXCEPT ![r] = [st |-> "exited", code |-> c, signaled |-> FALSE]]
    /\ UNCHANGED <<now, processes, files, events, sig, killedLog, cancelRet, constVars, faults>>
    /\ UNCHANGED <<runVars, streamVars, inpVars>>

\* The process group of run r's child: the PTY child is a session leader,
\* and so the leader of a group of its own.
Pgid(r) == OsPid(r)

\* A `kill -9` run by kill_all reaches the child.
ChildKilled(r) ==
    /\ child[r].st = "alive"
    /\ \E arg \in sig : \/ kill_reaches_process(arg, OsPid(r))
                         \/ kill_reaches_group(arg, Pgid(r))
    /\ child' = [child EXCEPT ![r] = [st |-> "exited", code |-> 9, signaled |-> TRUE]]
    /\ UNCHANGED <<now, processes, files, events, sig, killedLog, cancelRet, constVars, faults>>
    /\ UNCHANGED <<runVars, streamVars, inpVars>>

----------------------------------------------------------------------------
\* Output pumps: the PTY reader thread (lines 404-423), stream_stdout and
\* stream_stderr.

\* A stream gives the bytes the child wrote, then end-of-stream once the
\* child has exited.  What the child has written and the pump has not yet
\* read is not kept: a stream can give a non-empty read while the child can
\* still write (outLeft, errLeft) or has left bytes behind, and gives
\* end-of-stream only after the child's exit.

\* A pump that stops once an emit has failed.
PumpAfterEmit_StopsOnFailure(delivered) == IF delivered THEN "running" ELSE "done"

\* The Ok(n) arm ends with the emit, whose result is dropped: the loop goes on.
PumpAfterEmit(delivered) == "running"

\* A pump that reports every stream as "output".
PumpEventType_AlwaysOutput(stream) == "output"

\* The event type of the emit in the Ok(n) arm: "output" in stream_stdout
\* and in the PTY reader, "error" in stream_stderr.
PumpEventType(stream) == IF stream = "stderr" THEN "error" ELSE "output"

\* Ok(n): one event per read.
ReadOut(r) ==
    /\ rdOut[r] = "running"
    /\ outLeft[r] > 0
    /\ outLeft' = [outLeft EXCEPT ![r] = @ - 1]
    /\ events' = emit_stream_event(events, r,
            PumpEventType(IF path[r] = "pty" THEN "pty" ELSE "stdout"), "data", 0)
    /\ rdOut' = [rdOut EXCEPT ![r] = PumpAfterEmit(sinkUp)]
    /\ UNCHANGED <<now, processes, files, child, sig, killedLog, cancelRet, constVars, faults>>
    /\ UNCHANGED <<runVars, errLeft, rdErr, inpVars>>

\* Ok(0)
ReadOutEof(r) ==
    /\ rdOut[r] = "running"
    /\ child[r].st # "alive"
    /\ rdOut' = [rdOut EXCEPT ![r] = "done"]
    /\ UNCHANGED <<now, processes, files, events, child, sig, killedLog, cancelRet, constVars, faults>>
    /\ UNCHANGED <<runVars, outLeft, errLeft, rdErr, inpVars>>

\* Err(e): the pump stops.
ReadOutErr(r) ==
    /\ rdOut[r] = "running"
    /\ Outcome(FALSE)
    /\ rdOut' = [rdOut EXCEPT ![r] = "done"]
    /\ UNCHANGED <<now, processes, files, events, child, sig, killedLog, cancelRet, constVars>>
    /\ UNCHANGED <<runVars, outLeft, errLeft, rdErr, inpVars>>

ReadErr(r) ==
    /\ rdErr[r] = "running"
    /\ errLeft[r] > 0
    /\ errLeft' = [errLeft EXCEPT ![r] = @ - 1]
    /\ events' = emit_stream_event(events, r, PumpEventType("stderr"), "data", 0)
    /\ rdErr' = [rdErr EXCEPT ![r] = PumpAfterEmit(sinkUp)]
    /\ UNCHANGED <<now, processes, files, child, sig, killedLog, cancelRet, constVars, faults>>
    /\ UNCHANGED <<runVars, outLeft, rdOut, inpVars>>

ReadErrEof(r) ==
    /\ rdErr[r] = "running"
    /\ child[r].st # "alive"
    /\ rdErr' = [rdErr EXCEPT ![r] = "done"]
    /\ UNCHANGED <<now, processes, files, events, child, sig, killedLog, cancelRet, constVars, faults>>
    /\ UNCHANGED <<runVars, outLeft, errLeft, rdOut, inpVars>>

ReadErrErr(r) ==
    /\ rdErr[r] = "running"
    /\ Outcome(FALSE)
    /\ rdErr' = [rdErr EXCEPT ![r] = "done"]
    /\ UNCHANGED <<now, processes, files, events, child, sig, killedLog, cancelRet, constVars>>
    /\ UNCHANGED <<runVars, outLeft, errLeft, rdOut, inpVars>>

----------------------------------------------------------------------------
\* The waiter thread (lines 429-452 and 509-522)

\* A waiter that joins the stdout thread only.
PumpsStopped_StdoutOnly(r) == rdOut[r] = "done"

\* What the waiter's joins wait for.
PumpsStopped(r) ==
    /\ rdOut[r] = "done"
    /\ path[r] = "npm" => rdErr[r] = "done"

\* reader_thread.join(); stdout_thread.join(), stderr_thread.join()
WaiterJoin(r) ==
    /\ wt[r] = "join"
    /\ PumpsStopped(r)
    /\ wt' = [wt EXCEPT ![r] = "wait"]
    /\ UNCHANGED <<now, processes, files, events, child, sig, killedLog, cancelRet, constVars, faults>>
    /\ UNCHANGED <<pc, spawnRet, procId, path, childPid, exitCode>>
    /\ UNCHANGED <<streamVars, inpVars>>

\* A waiter that reports success whatever the status.
PtyExitCode_Zero(st) == 0

\* status.exit_code() of portable_pty: 1 for a child ended by a signal.
PtyExitCode(st) == IF st.signaled THEN 1 ELSE st.code

\* status.code().unwrap_or(-1): code() is None for a child ended by a signal.
NpmExitCode(st) == IF st.signaled THEN -1 ELSE st.code

\* The step the waiter takes after it has an exit code.
AfterWait(r) == IF path[r] = "pty" THEN "remove" ELSE "emit"

\* child.wait() returns Ok(status).
WaiterWait(r) ==
    /\ wt[r] = "wait"
    /\ child[r].st = "exited"
    /\ child' = [child EXCEPT ![r].st = "reaped"]
    /\ exitCode' = [exitCode EXCEPT ![r] =
            IF path[r] = "pty" THEN PtyExitCode(child[r]) ELSE NpmExitCode(child[r])]
    /\ wt' = [wt EXCEPT ![r] = AfterWait(r)]
    /\ UNCHANGED <<now, processes, files, events, sig, killedLog, cancelRet, constVars, faults>>
    /\ UNCHANGED <<pc, spawnRet, procId, path, childPid>>
    /\ UNCHANGED <<streamVars, inpVars>>

\* A waiter that reports success when the wait failed.
WaitErrCode_Zero(p) == 0

\* The Err arm of `match child.wait()`: 1 on the PTY path, -1 on the pipe path.
WaitErrCode(p) == IF p = "pty" THEN 1 ELSE -1

\* child.wait() returns Err(e).
WaiterWaitErr(r) ==
    /\ wt[r] = "wait"
    /\ Outcome(FALSE)
    /\ exitCode' = [exitCode EXCEPT ![r] = WaitErrCode(path[r])]
    /\ wt' = [wt EXCEPT ![r] = AfterWait(r)]
    /\ UNCHANGED <<now, processes, files, events, child, sig, killedLog, cancelRet, constVars>>
    /\ UNCHANGED <<pc, spawnRet, procId, path, childPid>>
    /\ UNCHANGED <<streamVars, inpVars>>

\* registry.remove(&proc_id)
WaiterRemove(r) ==
    /\ wt[r] = "remove"
    /\ processes' = remove(processes, TheId(r))
    /\ wt' = [wt EXCEPT ![r] = "unlink"]
    /\ UNCHANGED <<now, files, events, child, sig, killedLog, cancelRet, constVars, faults>>
    /\ UNCHANGED <<pc, spawnRet, procId, path, childPid, exitCode>>
    /\ UNCHANGED <<streamVars, inpVars>>

\* fs::remove_file: the path no longer names a file; an error is ignored.
remove_file(fs, p) == [k \in DOMAIN fs \ {p} |-> fs[k]]

\* let _ = fs::remove_file(&temp_path_clone)
WaiterUnlink(r) ==
    /\ wt[r] = "unlink"
    /\ files' = remove_file(files, TempPath(TheId(r)))
    /\ wt' = [wt EXCEPT ![r] = "emit"]
    /\ UNCHANGED <<now, processes, events, child, sig, killedLog, cancelRet, constVars, faults>>
    /\ UNCHANGED <<pc, spawnRet, procId, path, childPid, exitCode>>
    /\ UNCHANGED <<streamVars, inpVars>>

\* emit "complete" with "Process exited with code {exit_code}"
WaiterEmit(r) ==
    /\ wt[r] = "emit"
    /\ events' = emit_stream_event(events, r, "complete", "exit", exitCode[r])
    /\ wt' = [wt EXCEPT ![r] = "done"]
    /\ UNCHANGED <<now, processes, files, child, sig, killedLog, cancelRet, constVars, faults>>
    /\ UNCHANGED <<pc, spawnRet, procId, path, childPid, exitCode>>
    /\ UNCHANGED <<streamVars, inpVars>>

----------------------------------------------------------------------------
\* A handler that reports failure when nothing was killed.
CancelResult_FalseWhenNone(killed) == [success |-> killed > 0]

\* CancelResult { success: true }, whatever kill_all returned.
CancelResult(killed) == [success |-> TRUE]

\* cancel_streaming_processes: kill_all under the registry lock.
cancel_streaming_processes ==
    /\ Len(killedLog) < MaxCancels
    /\ sig' = sig \cup kill_all_args(processes)
    /\ processes' = kill_all_drain(processes)
    /\ killedLog' = Append(killedLog, kill_all_count(processes))
    /\ cancelRet' = Append(cancelRet, CancelResult(kill_all_count(processes)))
    /\ UNCHANGED <<now, files, events, child, faults, constVars>>
    /\ UNCHANGED <<runVars, streamVars, inpVars>>

----------------------------------------------------------------------------
\* send_process_input

\* Call c is the c-th input call to start.
InputTurn(c) == \A q \in Callers : q < c => inp[q] # "idle"

\* get_active_process_id() is None: Err("No active process").
InputNoProcess(c) ==
    /\ inp[c] = "idle"
    /\ UNCHANGED inpSeen
    /\ InputTurn(c)
    /\ get_active_process_id(processes) = {}
    /\ inp' = [inp EXCEPT ![c] = "done"]
    /\ inpRet' = [inpRet EXCEPT ![c] = "No active process"]
    /\ UNCHANGED <<now, processes, files, events, child, sig, killedLog, cancelRet, constVars, faults>>
    /\ UNCHANGED <<runVars, streamVars, inpId, inpWriter, writerLock, chan>>

InputBegin(c, id) ==
    /\ inp[c] = "idle"
    /\ InputTurn(c)
    /\ id \in get_active_process_id(processes)
    /\ inpId' = [inpId EXCEPT ![c] = {id}]
    /\ inpSeen' = [inpSeen EXCEPT ![c] = {processes[id].writer.run}]
    /\ inp' = [inp EXCEPT ![c] = "get_pty"]
    /\ UNCHANGED <<now, processes, files, events, child, sig, killedLog, cancelRet, constVars, faults>>
    /\ UNCHANGED <<runVars, streamVars, inpWriter, inpRet, writerLock, chan>>

TheInpId(c) == CHOOSE id \in inpId[c] : TRUE
TheWriter(c) == CHOOSE w \in inpWriter[c] : TRUE

\* registry.get_pty_writer(&process_id)
InputGetPty(c) ==
    /\ inp[c] = "get_pty"
    /\ UNCHANGED inpSeen
    /\ inpWriter' = [inpWriter EXCEPT ![c] = get_pty_writer(processes, TheInpId(c))]
    /\ inp' = [inp EXCEPT ![c] =
            IF get_pty_writer(processes, TheInpId(c)) # {} THEN "lock" ELSE "get_stdin"]
    /\ UNCHANGED <<now, processes, files, events, child, sig, killedLog, cancelRet, constVars, faults>>
    /\ UNCHANGED <<runVars, streamVars, inpId, inpRet, writerLock, chan>>

\* registry.get_stdin(&process_id); None: Err("Process writer unavailable").
InputGetStdin(c) ==
    /\ inp[c] = "get_stdin"
    /\ UNCHANGED inpSeen
    /\ inpWriter' = [inpWriter EXCEPT ![c] = get_stdin(processes, TheInpId(c))]
    /\ IF get_stdin(processes, TheInpId(c)) # {}
       THEN /\ inp' = [inp EXCEPT ![c] = "lock"]
            /\ UNCHANGED inpRet
            /\ UNCHANGED inpId
       ELSE /\ inp' = [inp EXCEPT ![c] = "done"]
            /\ inpRet' = [inpRet EXCEPT ![c] = "Process writer unavailable"]
            /\ inpId' = [inpId EXCEPT ![c] = {}]
    /\ UNCHANGED <<now, processes, files, events, child, sig, killedLog, cancelRet, constVars, faults>>
    /\ UNCHANGED <<runVars, streamVars, writerLock, chan>>

\* A mutex that any number of threads can hold.
WriterFree_Always(locks, r) == TRUE

\* Mutex::lock blocks while another thread holds the guard.
WriterFree(locks, r) == r \notin locks

\* writer_handle.lock() / stdin_handle.lock()
InputLock(c) ==
    /\ inp[c] = "lock"
    /\ UNCHANGED inpSeen
    /\ WriterFree(writerLock, TheWriter(c).run)
    /\ writerLock' = writerLock \cup {TheWriter(c).run}
    /\ inp' = [inp EXCEPT ![c] = "write"]
    /\ UNCHANGED <<now, processes, files, events, child, sig, killedLog, cancelRet, constVars, faults>>
    /\ UNCHANGED <<runVars, streamVars, inpId, inpWriter, inpRet, chan>>

\* The parts of call c's bytes that have reached the channel of run r.
Written(c, r) == Cardinality({i \in 1..Len(chan[r]) : chan[r][i][1] = c})

\* A guard that is not released when it goes out of scope.
ReleaseWriter_Keeps(locks, r) == locks

\* The guard is dropped at the end of its scope, and on every `?` return.
ReleaseWriter(locks, r) == locks \ {r}

\* A write_all that returns after its first write.
WriteAllDone_AfterFirst(n) == n >= 1

\* write_all returns Ok once the whole buffer is written, here after
\* MaxParts writes.
WriteAllDone(n) == n = MaxParts

\* write_all(input_with_newline) and flush(): write_all writes the buffer in
\* as many writes as the channel takes, here MaxParts; an error of a write
\* or of the flush is returned, which drops the guard.
InputWritePart(c, ok) ==
    /\ inp[c] = "write"
    /\ UNCHANGED inpSeen
    /\ Outcome(ok)
    /\ IF ok
       THEN /\ chan' = [chan EXCEPT ![TheWriter(c).run] =
                    Append(@, <<c, Written(c, TheWriter(c).run) + 1>>)]
            /\ inp' = [inp EXCEPT ![c] =
                    IF WriteAllDone(Written(c, TheWriter(c).run) + 1)
                    THEN "emit" ELSE "write"]
            /\ UNCHANGED <<inpRet, inpId, inpWriter, writerLock>>
       ELSE /\ inp' = [inp EXCEPT ![c] = "done"]
            /\ inpRet' = [inpRet EXCEPT ![c] = "io error"]
            /\ inpId' = [inpId EXCEPT ![c] = {}]
            /\ inpWriter' = [inpWriter EXCEPT ![c] = {}]
            /\ writerLock' = ReleaseWriter(writerLock, TheWriter(c).run)
            /\ UNCHANGED chan
    /\ UNCHANGED <<now, processes, files, events, child, sig, killedLog, cancelRet, constVars>>
    /\ UNCHANGED <<runVars, streamVars>>

\* emit "input", return success=true (the guard drops).
InputEmit(c) ==
    /\ inp[c] = "emit"
    /\ UNCHANGED inpSeen
    /\ events' = emit_stream_event(events, TheWriter(c).run, "input", "echo", 0)
    /\ inp' = [inp EXCEPT ![c] = "done"]
    /\ inpRet' = [inpRet EXCEPT ![c] =
            IF TheWriter(c).kind = "Pty" THEN "Input sent to PTY" ELSE "Input sent to stdin"]
    /\ inpId' = [inpId EXCEPT ![c] = {}]
    /\ inpWriter' = [inpWriter EXCEPT ![c] = {}]
    /\ writerLock' = ReleaseWriter(writerLock, TheWriter(c).run)
    /\ UNCHANGED <<now, processes, files, child, sig, killedLog, cancelRet, constVars, faults>>
    /\ UNCHANGED <<runVars, streamVars, chan>>

----------------------------------------------------------------------------
SpawnStep(r) ==
    \/ \E a \in ActionNames, hasSpec \in BOOLEAN : SpawnBegin(r, a, hasSpec)
    \/ \E ok \in BOOLEAN : WritePrompt(r, ok)
    \/ \E res \in {"ok", ErrPty, ErrSpawn}, pid \in {{}, {OsPid(r)}} :
            SpawnChild(r, res, pid)
    \/ \E res \in {"ok", ErrReader, ErrWriter} : EmitStarted(r, res)
    \/ RegisterPty(r)
    \/ \E ok \in BOOLEAN : NpmSpawn(r, ok)

PumpStep(r) ==
    \/ ReadOut(r)
    \/ ReadOutEof(r)
    \/ ReadErr(r)
    \/ ReadErrEof(r)

PumpFail(r) ==
    \/ ReadOutErr(r)
    \/ ReadErrErr(r)

WaiterStep(r) ==
    \/ WaiterJoin(r)
    \/ WaiterWait(r)
    \/ WaiterRemove(r)
    \/ WaiterUnlink(r)
    \/ WaiterEmit(r)

InputStep(c) ==
    \/ InputGetPty(c)
    \/ InputGetStdin(c)
    \/ InputLock(c)
    \/ InputWritePart(c, TRUE)
    \/ InputEmit(c)

\* Everything but input injection.
CoreNext ==
    \/ Tick
    \/ \E r \in Runs : SpawnStep(r)
    \/ \E r \in Runs, c \in ChildExitCodes : ChildExit(r, c)
    \/ \E r \in Runs : ChildKilled(r)
    \/ \E r \in Runs : PumpStep(r)
    \/ \E r \in Runs : PumpFail(r)
    \/ \E r \in Runs : WaiterStep(r)
    \/ \E r \in Runs : WaiterWaitErr(r)
    \/ cancel_streaming_processes

\* Input injection.  Its steps write the caller's own variables, the writer
\* locks, the failure count and "input" events, and nothing else.
InputNext ==
    \/ \E c \in Callers : InputNoProcess(c)
    \/ \E c \in Callers, id \in DOMAIN processes : InputBegin(c, id)
    \/ \E c \in Callers : InputStep(c)
    \/ \E c \in Callers : InputWritePart(c, FALSE)

\* The steps of one spawn call and of the threads it starts.
RunNext(r) ==
    \/ SpawnStep(r)
    \/ \E c \in ChildExitCodes : ChildExit(r, c)
    \/ ChildKilled(r)
    \/ PumpStep(r)
    \/ PumpFail(r)
    \/ WaiterStep(r)
    \/ WaiterWaitErr(r)

\* A single spawn call, with cancellation and input injection.
OneRunNext ==
    \/ RunNext(1)
    \/ cancel_streaming_processes
    \/ InputNext

\* Two spawn calls that read the clock in the same millisecond, their
\* threads, cancellation, and one input call.
RaceNext ==
    \/ \E r \in Runs : SpawnStep(r)
    \/ \E r \in Runs, c \in ChildExitCodes : ChildExit(r, c)
    \/ \E r \in Runs : ChildKilled(r)
    \/ \E r \in Runs : PumpStep(r)
    \/ \E r \in Runs : WaiterStep(r)
    \/ cancel_streaming_processes
    \/ InputNoProcess(1)
    \/ \E id \in DOMAIN processes : InputBegin(1, id)
    \/ InputStep(1)

Next == CoreNext \/ InputNext

\* The program.
Spec == Init /\ [][Next]_vars

\* The program when no input-injection call is made.
SpecCore == Init /\ [][CoreNext]_vars

\* The program with an event sink that takes the events.
RaceInit == Init /\ sinkUp

\* The program when two spawn calls fall into one millisecond and one input
\* call is made.
SpecRace == RaceInit /\ [][RaceNext]_vars

\* The program when a single spawn call is made.
SpecOneRun == Init /\ [][OneRunNext]_vars

\* The threads the program has started keep running, and a signal that was
\* sent is delivered.  Nothing obliges a caller to call, a child to write or
\* to exit by itself, or an I/O error to happen.
FairSpec ==
    /\ Spec
    /\ \A r \in Runs : WF_vars(PumpStep(r))
    /\ \A r \in Runs : WF_vars(WaiterStep(r))
    /\ \A r \in Runs : WF_vars(ChildKilled(r))
    /\ \A c \in Callers : WF_vars(InputStep(c))

\* The same, when a single spawn call is made.
FairSpecOneRun ==
    /\ SpecOneRun
    /\ WF_vars(PumpStep(1))
    /\ WF_vars(WaiterStep(1))
    /\ WF_vars(ChildKilled(1))
    /\ \A c \in Callers : WF_vars(InputStep(c))

\* The same, when no input-injection call is made.
FairSpecCore ==
    /\ SpecCore
    /\ \A r \in Runs : WF_vars(PumpStep(r))
    /\ \A r \in Runs : WF_vars(WaiterStep(r))
    /\ \A r \in Runs : WF_vars(ChildKilled(r))

----------------------------------------------------------------------------
\* Properties

EventIdx(r) == 1..Len(events[r])

HasType(r, t) == \E i \in EventIdx(r) : events[r][i].type = t

HasData(r) == \E i \in EventIdx(r) : events[r][i].tag = "data"

CompleteCount(r) == Cardinality({i \in EventIdx(r) : events[r][i].type = "complete"})

\* The run's id is a key of the registry.
Tracked(r) == procId[r] \cap DOMAIN processes # {}

\* C1: every started run emits exactly one "complete" event, and no event
\* of the run (output, error or input) is emitted after it (while the event
\* sink takes the events).
C1_CompleteOnceAndLast ==
    \A r \in Runs : (sinkUp /\ spawnRet[r] = "ok") =>
        /\ CompleteCount(r) <= 1
        /\ wt[r] = "done" => CompleteCount(r) = 1
        /\ \A i \in EventIdx(r) :
                events[r][i].type = "complete" => i = Len(events[r])

\* C2: a run's "complete" event is emitted only after every output pump of
\* the run has stopped and the waiter has waited on the child (which has
\* reaped it unless the wait failed), and no "output" or "error" event of
\* the run follows it.
C2_CompleteAfterPumpsAndWait ==
    \A r \in Runs : \A i \in EventIdx(r) :
        events[r][i].type = "complete" =>
            /\ rdOut[r] = "done"
            /\ path[r] = "npm" => rdErr[r] = "done"
            /\ wt[r] = "done"
            /\ child[r].st = "reaped" \/ faults > 0
            /\ \A j \in EventIdx(r) :
                    j > i => events[r][j].type \notin {"output", "error"}

\* Two runs have streamed: one PTY run and one pipe run, each with data
\* events and its "complete" event.
C2_Witness ==
    \E r1 \in Runs, r2 \in Runs :
        /\ path[r1] = "pty" /\ HasData(r1) /\ HasType(r1, "complete")
        /\ path[r2] = "npm" /\ HasType(r2, "error") /\ HasData(r2)
        /\ HasType(r2, "complete")

\* C3: within a run of any action that starts a process, a "process started"
\* event carrying the OS pid precedes every "output" event carrying data
\* read from the child.
C3_StartedBeforeOutput ==
    \A r \in Runs : \A i \in EventIdx(r) :
        (events[r][i].type = "output" /\ events[r][i].tag = "data") =>
            \E j \in EventIdx(r) :
                /\ j < i
                /\ events[r][j].tag = "started"
                /\ events[r][j].val = PidOrZero(childPid[r])

\* C4: when kill_all returns, the registry tracks no process id, whatever
\* records it held.
C4_KillAllEmptiesRegistry ==
    [][cancel_streaming_processes => DOMAIN processes' = {}]_vars

\* kill_all has run and left the registry empty: it signalled a pid, and a
\* started PTY run without a pid, whose waiter has not reached its cleanup,
\* is no longer tracked.
C4_Witness ==
    /\ Len(killedLog) > 0
    /\ sig # {}
    /\ DOMAIN processes = {}
    /\ \E r \in Runs :
        /\ path[r] = "pty" /\ spawnRet[r] = "ok" /\ childPid[r] = {}
        /\ wt[r] = "join"
        /\ \A q \in Runs \ {r} : procId[q] # procId[r]

\* C5: a cancel request issued while a started run's child is alive is
\* followed by the run's "complete" event with a forced-termination exit
\* code, and the registry no longer tracks the run.  Stated on the cancel
\* step: the request issues the forced-termination signal to the child (the
\* only thing that ends a long-running child) and leaves the run untracked.
C5_CancelTerminatesEveryRun ==
    [][cancel_streaming_processes =>
        \A r \in Runs : (spawnRet[r] = "ok" /\ child[r].st = "alive") =>
            OsPid(r) \in sig' /\ procId[r] \cap DOMAIN processes' = {}]_vars

\* C6: from the return of started=true until the run's cleanup or a
\* kill_all, the registry holds the run's record under its processId, with
\* the child's pid and the run's own write handle.
C6_OneRecordPerLiveRun ==
    \A r \in Runs :
        (spawnRet[r] = "ok" /\ wt[r] \in {"join", "wait", "remove"} /\ killedLog = <<>>) =>
            /\ Tracked(r)
            /\ processes[TheId(r)].writer.run = r
            /\ processes[TheId(r)].child_pid \subseteq {OsPid(r)}

\* C7: any two spawn calls obtain different process ids.
C7_ProcessIdsNeverReused ==
    \A r1 \in Runs, r2 \in Runs :
        (r1 # r2 /\ procId[r1] # {} /\ procId[r2] # {}) => procId[r1] # procId[r2]

\* C8: the completion callback of a run removes no record of a different
\* run whose child is still alive.
C8_RemoveOnlyOwnRecord ==
    [][\A r \in Runs : WaiterRemove(r) =>
        \A id \in DOMAIN processes \ DOMAIN processes' :
            \/ processes[id].writer.run = r
            \/ child[processes[id].writer.run].st # "alive"]_vars

\* C9: registering an id that is already present leaves the existing record
\* unchanged.
C9_RegisterKeepsExisting ==
    [][\A r \in Runs : (RegisterPty(r) /\ Tracked(r)) =>
        processes'[TheId(r)] = processes[TheId(r)]]_vars

\* C10: remove(id) of an absent id (never registered, already removed or
\* drained) changes no record and signals nothing; kill_all on an empty
\* registry changes nothing, signals nothing and returns 0; removing twice
\* is removing once, and a removal leaves every other record as it was.
C10_RemoveAndKillAllIdempotent ==
    [][/\ \A r \in Runs : (WaiterRemove(r) /\ ~Tracked(r)) =>
            processes' = processes /\ sig' = sig
       /\ (cancel_streaming_processes /\ DOMAIN processes = {}) =>
            /\ processes' = processes
            /\ sig' = sig
            /\ killedLog' = Append(killedLog, 0)
       /\ \A id \in DOMAIN processes :
            /\ remove(remove(processes, id), id) = remove(processes, id)
            /\ \A k \in DOMAIN processes \ {id} :
                    /\ k \in DOMAIN remove(processes, id)
                    /\ remove(processes, id)[k] = processes[k]]_vars

\* The record of run r was drained by kill_all (which signalled its pid),
\* no other run shares r's id, and r's completion callback has since called
\* remove on the absent id while another run's record is in the registry.
C10_Witness ==
    \E r \in Runs, q \in Runs :
        /\ OsPid(r) \in sig
        /\ wt[r] \in {"unlink", "emit", "done"}
        /\ \A x \in Runs \ {r} : procId[x] # procId[r]
        /\ q # r /\ Tracked(q)

\* C11: kill_all runs the forced termination against the process group of
\* every tracked OS pid, so that the descendants of a tracked child, which
\* only a signal to the group reaches, are terminated with it.
C11_KillAllSignalsGroup ==
    [][cancel_streaming_processes =>
        \A pid \in kill_all_pids(processes) :
            \E arg \in sig' : kill_reaches_group(arg, pid)]_vars

OwnFile(r) == \E p \in DOMAIN files : files[p] = r

\* C13: when a PTY-based run emits its "complete" event, however its child
\* ended, the run's temp prompt file does not exist and the registry holds no
\* entry under the run's id.
C13_CleanedUpAtComplete ==
    [][\A r \in Runs : (WaiterEmit(r) /\ path[r] = "pty") =>
            /\ TempPath(TheId(r)) \notin DOMAIN files
            /\ ~Tracked(r)]_vars

\* C14: every temp prompt file a spawn call has written is eventually
\* deleted once the call has failed or the child has ended.
C14_TempFileEventuallyDeleted ==
    \A r \in Runs :
        (OwnFile(r) /\ (spawnRet[r] \in SpawnErrors \/ child[r].st = "exited"))
            ~> ~OwnFile(r)

\* C15: between a run's write of its temp prompt file and the run's own
\* cleanup, no other run overwrites the file or deletes it.
C15_TempFileExclusive ==
    [][\A r \in Runs :
        /\ (\E ok \in BOOLEAN : WritePrompt(r, ok)) =>
                \A p \in DOMAIN files : files'[p] = files[p]
        /\ WaiterUnlink(r) =>
                \A p \in DOMAIN files \ DOMAIN files' : files[p] = r]_vars

\* Spawn call r has left nothing behind: no event, no temp file, no child,
\* no registry record, no thread.
NoTrace(r) ==
    /\ events[r] = <<>>
    /\ ~OwnFile(r)
    /\ child[r] = NoChild
    /\ \A id \in DOMAIN processes : processes[id].writer.run # r
    /\ rdOut[r] = "none" /\ rdErr[r] = "none" /\ wt[r] = "none"

\* C16: a spawn request for create_code or gen_tests without spec content
\* returns its error in the step that matches the action, with the event
\* sink, the temp directory, the children and the registry unchanged, and
\* nothing of the call ever exists afterwards.
C16_MissingSpecRejected ==
    /\ [](\A r \in Runs : spawnRet[r] = ErrNoSpec =>
                pc[r] = "returned" /\ NoTrace(r))
    /\ [][\A r \in Runs, a \in PtyActions : SpawnBegin(r, a, FALSE) =>
                /\ spawnRet'[r] = ErrNoSpec
                /\ pc'[r] = "returned"
                /\ UNCHANGED <<events, files, child, processes>>]_vars

\* A request without spec content was rejected while another run was
\* tracked, had its temp file and had emitted events.
C16_Witness ==
    \E r \in Runs, q \in Runs :
        /\ spawnRet[r] = ErrNoSpec
        /\ Tracked(q) /\ OwnFile(q) /\ HasData(q)

\* C17: a spawn request with an unknown action name returns an error, with
\* no event, no temp file, no child and no registry entry, in that step or
\* afterwards.
C17_UnknownActionRejected ==
    /\ [](\A r \in Runs : spawnRet[r] = ErrUnknown =>
                pc[r] = "returned" /\ NoTrace(r))
    /\ [][\A r \in Runs, a \in ActionNames \ (PtyActions \cup NpmActions),
            hasSpec \in BOOLEAN : SpawnBegin(r, a, hasSpec) =>
                /\ spawnRet'[r] = ErrUnknown
                /\ pc'[r] = "returned"
                /\ UNCHANGED <<events, files, child, processes>>]_vars

\* An unknown action was rejected while a pipe-based run was streaming.
C17_Witness ==
    \E r \in Runs, q \in Runs :
        /\ spawnRet[r] = ErrUnknown
        /\ path[q] = "npm" /\ HasData(q) /\ wt[q] = "join"

\* C18: when the child fails to launch, the spawn call returns the error in
\* that step, and the call has no child, no registry record, no reader or
\* waiter thread and no "complete" event, then or afterwards.
C18_LaunchFailureReturned ==
    /\ [](\A r \in Runs : spawnRet[r] \in {ErrSpawn, ErrNpm} =>
                /\ pc[r] = "returned"
                /\ child[r] = NoChild
                /\ \A id \in DOMAIN processes : processes[id].writer.run # r
                /\ rdOut[r] = "none" /\ rdErr[r] = "none" /\ wt[r] = "none"
                /\ ~HasType(r, "complete"))
    /\ [][\A r \in Runs :
            ((\E pid \in {{}, {OsPid(r)}} : SpawnChild(r, ErrSpawn, pid))
                \/ NpmSpawn(r, FALSE)) =>
                /\ spawnRet'[r] \in {ErrSpawn, ErrNpm}
                /\ UNCHANGED <<events, child, processes, rdOut, rdErr, wt>>]_vars

\* The launch of a PTY child failed after the prompt was written, while
\* another run had completed.
C18_Witness ==
    \E r \in Runs, q \in Runs :
        /\ spawnRet[r] = ErrSpawn /\ OwnFile(r)
        /\ HasType(q, "complete")

\* C19: a spawn call whose child has launched returns started=true, whatever
\* fails after the launch.
C19_StartedOnceLaunched ==
    \A r \in Runs :
        (child[r].st # "none" /\ pc[r] = "returned") => spawnRet[r] = "ok"

\* The waiter of run r is past child.wait().
PastWait(r) == wt[r] \in {"remove", "unlink", "emit", "done"}

\* C20: a read error stops its pump and nothing else; a failed wait gives
\* the exit code 1 on the PTY path and -1 on the pipe path and the waiter
\* goes on to its cleanup; the "complete" event carries the waiter's exit
\* code; and a started run whose child has ended, or whose wait has failed,
\* always reaches its "complete" event.
C20_ErrorsEndInComplete ==
    /\ [][\A r \in Runs :
            /\ ReadOutErr(r) => rdOut'[r] = "done" /\ UNCHANGED <<wt, events>>
            /\ ReadErrErr(r) => rdErr'[r] = "done" /\ UNCHANGED <<wt, events>>
            /\ WaiterWaitErr(r) => PastWait(r)']_vars
    /\ [](\A r \in Runs :
            /\ (PastWait(r) /\ child[r].st # "reaped") =>
                    exitCode[r] = IF path[r] = "pty" THEN 1 ELSE 0 - 1
            /\ \A i \in EventIdx(r) : events[r][i].type = "complete" =>
                    events[r][i].val = exitCode[r])
    /\ \A r \in Runs :
            (spawnRet[r] = "ok" /\ (child[r].st # "alive" \/ PastWait(r)))
                ~> (wt[r] = "done" /\ (sinkUp => HasType(r, "complete")))

\* The wait of a PTY run failed, its child having exited by itself without
\* being reaped, and the run has emitted "complete" with exit code 1 after
\* its cleanup.
C20_Witness ==
    \E r \in Runs :
        /\ path[r] = "pty" /\ child[r].st = "exited" /\ ~child[r].signaled
        /\ ~Tracked(r) /\ ~OwnFile(r)
        /\ HasType(r, "complete")
        /\ events[r][Len(events[r])].val = 1

\* Run r wrote no record that is still in the registry.
NoRecordOf(r) == \A id \in DOMAIN processes : processes[id].writer.run # r

InputRejected(c) ==
    /\ inpRet[c] = "none"
    /\ inpRet'[c] \in {"No active process", "Process writer unavailable"}

\* The channel of the record that call c targets is unavailable: the
\* registry holds no record under the id the call picked.
ChannelUnavailable(c) == inpId[c] # {} /\ TheInpId(c) \notin DOMAIN processes

\* C22: an input call made while the registry tracks no process returns
\* "No active process"; a call whose targeted record has no write channel
\* to hand out returns "Process writer unavailable"; a call rejected in
\* either way has written nothing to any channel, holds no writer lock and
\* emits no event in the step that rejects it.
C22_InputRejectedWithoutEffect ==
    [][\A c \in Callers :
        /\ (inp[c] = "idle" /\ inp'[c] # "idle" /\ DOMAIN processes = {}) =>
                (inp'[c] = "done" /\ inpRet'[c] = "No active process")
        /\ (inp[c] = "get_pty" /\ inp'[c] # "get_pty" /\ ChannelUnavailable(c)) =>
                inp'[c] = "get_stdin"
        /\ (inp[c] = "get_stdin" /\ inp'[c] # "get_stdin" /\ ChannelUnavailable(c)) =>
                (inp'[c] = "done" /\ inpRet'[c] = "Process writer unavailable")
        /\ InputRejected(c) =>
                /\ inp[c] \in {"idle", "get_stdin"}
                /\ events' = events
                /\ chan' = chan
                /\ writerLock' = writerLock
                /\ \A r \in Runs : Written(c, r) = 0
      ]_vars

\* One call was rejected because its record was drained after it had picked
\* the id, the other because the registry was empty; nothing was written
\* and no "input" event exists.
C22_Witness ==
    /\ inpRet[1] = "Process writer unavailable"
    /\ inpRet[2] = "No active process"
    /\ \A r \in Runs : chan[r] = <<>> /\ ~HasType(r, "input")
    /\ \E r \in Runs : spawnRet[r] = "ok"

\* The input calls that hold the writer lock of run r.
Holders(r) == {c \in Callers : inp[c] \in {"write", "emit"} /\ TheWriter(c).run = r}

\* The input call c is blocked on the writer lock of the run it targets.
BlockedOnWriter(c) == inp[c] = "lock" /\ ~ENABLED InputLock(c)

C25_WritesContiguous ==
    \A r \in Runs :
        /\ Cardinality(Holders(r)) <= 1
        /\ \A i \in 1..Len(chan[r]), k \in 1..Len(chan[r]) :
                (i < k /\ chan[r][i][1] = chan[r][k][1]) =>
                    /\ chan[r][k][2] = chan[r][i][2] + (k - i)
                    /\ \A j \in i..k : chan[r][j][1] = chan[r][i][1]

\* Two calls target the same channel at once: one holds the lock in the
\* middle of its write, the other waits for the lock.
C25_Witness ==
    \E c \in Callers, q \in Callers :
        /\ inp[c] = "write" /\ Written(c, TheWriter(c).run) = 1
        /\ BlockedOnWriter(q) /\ TheWriter(q).run = TheWriter(c).run

----------------------------------------------------------------------------
\* stream_stdout, byte by byte

progVars == <<now, processes, files, events, child, sig, killedLog, faults,
              cancelRet, sinkUp, runVars, streamVars, inpVars>>

Range(q) == {q[i] : i \in 1..Len(q)}

\* The bytes of "a", and of the two-byte encoding of U+00E9.
Bytes == {97, 195, 169}

ByteSeqs(n) == UNION {[1..k -> Bytes] : k \in 0..n}

REPLACEMENT_CHARACTER == 65533

IsContinuation(b) == b >= 128 /\ b < 192

IsLead2(b) == b >= 194 /\ b < 224

\* String::from_utf8_lossy on one- and two-byte sequences: the code points
\* of the text; a byte that does not start a complete sequence becomes
\* U+FFFD.
RECURSIVE from_utf8_lossy(_)
from_utf8_lossy(b) ==
    IF b = <<>> THEN <<>>
    ELSE IF b[1] < 128 THEN <<b[1]>> \o from_utf8_lossy(Tail(b))
    ELSE IF IsLead2(b[1]) /\ Len(b) >= 2 /\ IsContinuation(b[2])
         THEN <<(b[1] - 192) * 64 + (b[2] - 128)>> \o from_utf8_lossy(Tail(Tail(b)))
    ELSE <<REPLACEMENT_CHARACTER>> \o from_utf8_lossy(Tail(b))

\* The UTF-8 bytes of a text (the payload of an event is a String).
RECURSIVE as_bytes(_)
as_bytes(t) ==
    IF t = <<>> THEN <<>>
    ELSE IF t[1] < 128 THEN <<t[1]>> \o as_bytes(Tail(t))
    ELSE IF t[1] < 2048
         THEN <<192 + (t[1] \div 64), 128 + (t[1] % 64)>> \o as_bytes(Tail(t))
    ELSE <<224 + (t[1] \div 4096), 128 + ((t[1] \div 64) % 64), 128 + (t[1] % 64)>>
            \o as_bytes(Tail(t))

\* A pipe-based child has written fnArg to its standard output; fnRes is
\* the pump: the bytes read, the texts emitted as "output", concatenated,
\* and whether the loop has ended.
StreamInit ==
    /\ InitIdle
    /\ fnArg \in ByteSeqs(MaxStream)
    /\ fnRes = [pos |-> 0, out |-> <<>>, eof |-> FALSE]

\* Ok(n): the text emitted for the n bytes that one read returned.
StdoutText(stream, pos, n) == from_utf8_lossy(SubSeq(stream, pos + 1, pos + n))

\* stdout.read(&mut buffer) returns Ok(n), 0 < n; the chunk is emitted.
stream_stdout_read(n) ==
    /\ ~fnRes.eof
    /\ fnRes.pos + n <= Len(fnArg)
    /\ fnRes' = [fnRes EXCEPT !.pos = @ + n,
                              !.out = @ \o StdoutText(fnArg, fnRes.pos, n)]
    /\ UNCHANGED <<fnArg, progVars>>

\* stdout.read returns Ok(0): break.
stream_stdout_eof ==
    /\ ~fnRes.eof
    /\ fnRes.pos = Len(fnArg)
    /\ fnRes' = [fnRes EXCEPT !.eof = TRUE]
    /\ UNCHANGED <<fnArg, progVars>>

StreamNext ==
    \/ \E n \in 1..BufLen : stream_stdout_read(n)
    \/ stream_stdout_eof

\* The stdout pump of one pipe-based run, over every stream and every way
\* the reads can split it.
StreamSpec == StreamInit /\ [][StreamNext]_vars

\* The stream is valid UTF-8: decoding it replaces nothing.
ValidUtf8(b) == REPLACEMENT_CHARACTER \notin Range(from_utf8_lossy(b))

\* C26: when the stdout pump of a pipe-based run has reached end of stream,
\* the payloads of its "output" events, concatenated, are the text of the
\* child's stream (replacement only where the stream itself is invalid), and
\* their bytes are the stream's bytes when the stream is valid UTF-8.
C26_OutputEqualsStream ==
    fnRes.eof =>
        /\ fnRes.out = from_utf8_lossy(fnArg)
        /\ ValidUtf8(fnArg) => as_bytes(fnRes.out) = fnArg

----------------------------------------------------------------------------
\* resolve_binary_path and get_robust_path_env

\* A path is the sequence of its components; PathBuf::join.
Join(dir, rel) == dir \o rel

\* dirs::home_dir().unwrap_or_default()
Homes == {<<"/home/user">>, <<>>}

local_bin(home) == Join(home, <<".local/bin">>)
bun_path(home) == Join(home, <<".bun/bin">>)
npm_global_path(home) == Join(home, <<".npm-global/bin">>)
cargo_path(home) == Join(home, <<".cargo/bin">>)

search_paths(home) ==
    << local_bin(home),
       <<"/opt/homebrew/bin">>,
       <<"/usr/local/bin">>,
       <<"/usr/bin">>,
       <<"/bin">>,
       <<"/usr/sbin">>,
       <<"/sbin">>,
       bun_path(home),
       npm_global_path(home),
       cargo_path(home) >>

\* The loop over search_paths from index i on; fs is the set of the paths
\* that exist.
RECURSIVE resolve_from(_, _, _, _)
resolve_from(i, binary_name, home, fs) ==
    IF i > Len(search_paths(home)) THEN <<binary_name>>
    ELSE IF search_paths(home)[i] = <<>>
         THEN resolve_from(i + 1, binary_name, home, fs)
    ELSE IF Join(search_paths(home)[i], <<binary_name>>) \in fs
         THEN Join(search_paths(home)[i], <<binary_name>>)
    ELSE resolve_from(i + 1, binary_name, home, fs)

\* A search that keeps the last match instead of returning at the first.
resolve_binary_path_LastMatch(binary_name, home, fs) ==
    LET hits == {i \in 1..Len(search_paths(home)) :
                    Join(search_paths(home)[i], <<binary_name>>) \in fs}
    IN  IF hits = {} THEN <<binary_name>>
        ELSE Join(search_paths(home)[CHOOSE i \in hits : \A j \in hits : j <= i],
                  <<binary_name>>)

resolve_binary_path(binary_name, home, fs) == resolve_from(1, binary_name, home, fs)

extra_paths(home) ==
    << local_bin(home),
       <<"/opt/homebrew/bin">>,
       <<"/usr/local/bin">>,
       bun_path(home),
       npm_global_path(home),
       cargo_path(home) >>

\* The entries of the returned PATH value: extra_paths joined by ":", then
\* ":" and the inherited value.
get_robust_path_env(existing_path, home) == extra_paths(home) \o existing_path

BinaryNames == {"claude", "npm"}

\* The paths that may exist: "claude" in each searched directory and in one
\* that is not searched, "npm" in the last searched directory.
Candidates(home) ==
    {Join(search_paths(home)[i], <<"claude">>) : i \in 1..Len(search_paths(home))}
        \cup {<<"/snap/bin", "claude">>, Join(cargo_path(home), <<"npm">>)}

\* std::env::var("PATH").unwrap_or_default(), split at ":": unset (one
\* empty entry) or the value a desktop session passes on.
InheritedPaths == { << <<>> >>, << <<"/usr/bin">>, <<"/bin">> >> }

PathInit ==
    /\ InitIdle
    /\ fnArg \in {[name |-> n, home |-> h, fs |-> f, PATH |-> e] :
                    n \in BinaryNames, h \in Homes, e \in InheritedPaths,
                    f \in UNION {SUBSET Candidates(hh) : hh \in Homes}}
    /\ fnArg.fs \subseteq Candidates(fnArg.home)
    /\ fnRes = [resolved |-> {}, path_env |-> {}]

resolve_binary_path_call ==
    /\ fnRes.resolved = {}
    /\ fnRes' = [fnRes EXCEPT !.resolved =
                    {resolve_binary_path(fnArg.name, fnArg.home, fnArg.fs)}]
    /\ UNCHANGED <<fnArg, progVars>>

get_robust_path_env_call ==
    /\ fnRes.path_env = {}
    /\ fnRes' = [fnRes EXCEPT !.path_env =
                    {get_robust_path_env(fnArg.PATH, fnArg.home)}]
    /\ UNCHANGED <<fnArg, progVars>>

PathNext ==
    \/ resolve_binary_path_call
    \/ get_robust_path_env_call

\* The two helpers a spawn calls before it builds its command, over every
\* file system, home directory and inherited PATH.
PathSpec == PathInit /\ [][PathNext]_vars

\* The positions of the search list whose directory holds an entry `name`.
Hits == {i \in 1..Len(search_paths(fnArg.home)) :
            Join(search_paths(fnArg.home)[i], <<fnArg.name>>) \in fnArg.fs}

\* C27: resolve_binary_path returns the path of `name` in the first
\* directory of the search list that holds an entry of that name, and the
\* name itself when no directory of the list does; it always returns.
C27_FirstExistingOrName ==
    /\ fnRes.resolved = {} => ENABLED resolve_binary_path_call
    /\ \A p \in fnRes.resolved :
            /\ Hits = {} => p = <<fnArg.name>>
            /\ \A i \in Hits :
                    (\A j \in Hits : i <= j) =>
                        p = Join(search_paths(fnArg.home)[i], <<fnArg.name>>)

\* The name exists in two searched directories, neither the first of the
\* list, and in a directory that is not searched; the earlier one is
\* returned.
C27_Witness ==
    /\ fnArg.name = "claude"
    /\ fnArg.fs = {<<"/usr/bin", "claude">>, <<"/snap/bin", "claude">>,
                   Join(cargo_path(fnArg.home), <<"claude">>)}
    /\ fnRes.resolved = {<<"/usr/bin", "claude">>}

\* The entries that get_robust_path_env put before the inherited PATH.
Prepended(pe) == SubSeq(pe, 1, Len(pe) - Len(fnArg.PATH))

\* C28: the entries prepended to the inherited PATH are the search list of
\* resolve_binary_path, in its order, so a binary that resolve_binary_path
\* found lies in a prepended directory.
C28_PathEnvIsSearchList ==
    \A pe \in fnRes.path_env :
        /\ Prepended(pe) = search_paths(fnArg.home)
        /\ \A p \in fnRes.resolved :
                p # <<fnArg.name>> =>
                    \E i \in 1..Len(Prepended(pe)) :
                        p = Join(Prepended(pe)[i], <<fnArg.name>>)

----------------------------------------------------------------------------

\* Keystrokes of a bypass task, which is no input call, have reached the
\* channel of run r.
GhostWritten(r) == \E i \in 1..Len(chan[r]) : chan[r][i][1] \notin Callers

\* C29: the bypass of a PTY run sends its keystrokes once its delay has
\* elapsed if the run is still registered: a registered PTY run is removed
\* from the registry or gets the keystrokes on its channel.
C29_GhostBypassSent ==
    \A r \in Runs :
        (path[r] = "pty" /\ Tracked(r)) ~> (~Tracked(r) \/ GhostWritten(r))

\* The "output" events of run r that carry data of the child.
OutputData(r) ==
    {i \in EventIdx(r) : events[r][i].type = "output" /\ events[r][i].tag = "data"}

\* The run's child exited by itself, was waited for, and the waiter is done.
ExitedAndReported(r) ==
    /\ sinkUp
    /\ wt[r] = "done"
    /\ child[r].st = "reaped"
    /\ ~child[r].signaled

\* C30: a child that writes data and exits with code N by itself yields one
\* "output" event per chunk read from it, then exactly one "complete" event,
\* the last event, whose payload carries N.
C30_OutputThenExitCode ==
    \A r \in Runs :
        /\ (sinkUp /\ child[r].st # "none") =>
                Cardinality(OutputData(r)) = MaxChunks - outLeft[r]
        /\ ExitedAndReported(r) =>
                /\ CompleteCount(r) = 1
                /\ events[r][Len(events[r])] = Event("complete", "exit", child[r].code)
                /\ \A i \in OutputData(r) : i < Len(events[r])

\* A PTY child and a pipe child each wrote data and exited, one with code 2
\* and one with code 0, and both runs have completed.
C30_Witness ==
    \E r1 \in Runs, r2 \in Runs :
        /\ path[r1] = "pty" /\ path[r2] = "npm"
        /\ ExitedAndReported(r1) /\ ExitedAndReported(r2)
        /\ child[r1].code = 2 /\ child[r2].code = 0
        /\ OutputData(r1) # {} /\ OutputData(r2) # {}
        /\ outLeft[r1] = 0 /\ outLeft[r2] = 0

----------------------------------------------------------------------------

\* The "error" events of run r that carry data of the child.
ErrorData(r) ==
    {i \in EventIdx(r) : events[r][i].type = "error" /\ events[r][i].tag = "data"}

\* The step appends exactly the event e to the log of run r.
Emits(r, e) == events'[r] = Append(events[r], e)

----------------------------------------------------------------------------

\* The input call c has returned Ok(InputResult { success: true, .. }).
Succeeded(c) == inpRet[c] \in {"Input sent to PTY", "Input sent to stdin"}

\* The "input" events in the sink, as <<run, index>>.
InputEvents ==
    {ri \in Runs \X (1..(MaxInputs + MaxChunks + MaxChunks + 2)) :
        ri[2] \in EventIdx(ri[1]) /\ events[ri[1]][ri[2]].type = "input"}

\* C32: an input call that succeeds has written its whole buffer, and
\* nothing else, to the channel of the record that the registry held under
\* the id the call picked; the step that returns success is the one that
\* emits the call's single "input" event, after the whole write; a call
\* whose write or flush fails emits nothing; so the sink holds one "input"
\* event per call that succeeded.
C32_InputWrittenThenEchoed ==
    /\ [](\A c \in Callers : Succeeded(c) =>
            \E r \in Runs :
                /\ Written(c, r) = MaxParts
                /\ \A q \in Runs \ {r} : Written(c, q) = 0)
    /\ [](sinkUp => Cardinality(InputEvents) = Cardinality({c \in Callers : Succeeded(c)}))
    /\ [][\A c \in Callers :
            /\ (inp[c] = "get_pty" /\ inpWriter'[c] # {}) =>
                    inpWriter'[c] = {processes[TheInpId(c)].writer}
            /\ (inp[c] = "write" /\ chan' # chan /\ inp'[c] # inp[c]) =>
                    \A q \in Runs \ {TheWriter(c).run} : chan'[q] = chan[q]
            /\ (~Succeeded(c) /\ Succeeded(c)') =>
                    /\ inp[c] = "emit"
                    /\ Written(c, TheWriter(c).run) = MaxParts
                    /\ sinkUp => Emits(TheWriter(c).run, Event("input", "echo", 0))
            /\ (inpRet[c] = "none" /\ inpRet'[c] # "none" /\ ~Succeeded(c)') =>
                    events' = events
       ]_vars

\* One call failed in the middle of its write and emitted nothing; the
\* other wrote its whole buffer to the same channel and its "input" event
\* is the only one.
C32_Witness ==
    \E c \in Callers, q \in Callers, r \in Runs :
        /\ sinkUp
        /\ inpRet[c] = "io error" /\ Written(c, r) = 1
        /\ Succeeded(q) /\ Written(q, r) = MaxParts
        /\ Cardinality(InputEvents) = 1

----------------------------------------------------------------------------
\* ProcessRegistry, method by method

RegistryIds == {ProcIdOf(t) : t \in 0..(MaxClock + 1)}

\* fnArg is the map of one ProcessRegistry; fnRes holds what the last
\* get_active_process_id returned and the ids whose record was removed or
\* drained and not inserted again.
RegistryInit ==
    /\ InitIdle
    /\ fnArg = EmptyMap
    /\ fnRes = [ret |-> {}, gone |-> {}]

RegistryRegisterPty(id, r, pid) ==
    /\ fnArg' = register_pty(fnArg, id, r, pid)
    /\ fnRes' = [fnRes EXCEPT !.gone = @ \ {id}]
    /\ UNCHANGED progVars

RegistryRemove(id) ==
    /\ fnArg' = remove(fnArg, id)
    /\ fnRes' = [fnRes EXCEPT !.gone = @ \cup ({id} \cap DOMAIN fnArg)]
    /\ UNCHANGED progVars

RegistryKillAll ==
    /\ fnArg' = kill_all_drain(fnArg)
    /\ fnRes' = [fnRes EXCEPT !.gone = @ \cup DOMAIN fnArg]
    /\ UNCHANGED progVars

\* keys().next().cloned(): None for an empty map, else some key.
RegistryGetActive(ret) ==
    /\ \/ ret = {} /\ get_active_process_id(fnArg) = {}
       \/ \E id \in get_active_process_id(fnArg) : ret = {id}
    /\ fnRes' = [fnRes EXCEPT !.ret = ret]
    /\ UNCHANGED <<fnArg, progVars>>

RegistryNext ==
    \/ \E id \in RegistryIds, r \in Runs :
            \E pid \in {{}, {OsPid(r)}} : RegistryRegisterPty(id, r, pid)
    \/ \E id \in RegistryIds : RegistryRemove(id)
    \/ RegistryKillAll
    \/ \E ret \in {{}} \cup {{id} : id \in RegistryIds} : RegistryGetActive(ret)

\* One registry under every sequence of calls of its methods.
RegistrySpec == RegistryInit /\ [][RegistryNext]_vars

\* C33: a call of get_active_process_id returns None exactly when the map
\* is empty at the call, and otherwise a key the map holds at the call,
\* never an id whose record was removed or drained; the call leaves the map
\* as it is.
C33_ActiveIdIsTracked ==
    /\ [][\A ret \in {{}} \cup {{id} : id \in RegistryIds} :
            RegistryGetActive(ret) =>
                /\ ret = {} <=> DOMAIN fnArg = {}
                /\ ret \subseteq DOMAIN fnArg
                /\ ret \cap fnRes.gone = {}
                /\ fnArg' = fnArg
       ]_vars
    /\ [](fnRes.gone \cap DOMAIN fnArg = {})
    /\ [](ENABLED RegistryGetActive({}) <=> DOMAIN fnArg = {})

\* The map held three records; one was removed and the lookup then returned
\* one of the two ids that are still tracked.
C33_Witness ==
    /\ Cardinality(DOMAIN fnArg) = 2
    /\ Cardinality(fnRes.gone) = 1
    /\ fnRes.ret # {}
    /\ fnRes.ret \subseteq DOMAIN fnArg

----------------------------------------------------------------------------
\* search_files and search_file_names (search.rs)

\* The lines of a file: for each line, whether it contains the query.
LineSeqs == UNION {[1..k -> BOOLEAN] : k \in 0..MaxLines}

\* What the walker yields: an error or a directory ("skip"), or a file,
\* whose name contains the query or not, and which can be read or not.
WalkEntries ==
    {[kind |-> "skip", name |-> FALSE, readable |-> FALSE, lines |-> <<>>]}
        \cup {[kind |-> "file", name |-> n, readable |-> FALSE, lines |-> <<>>] :
                    n \in BOOLEAN}
        \cup {[kind |-> "file", name |-> n, readable |-> TRUE, lines |-> l] :
                    n \in BOOLEAN, l \in LineSeqs}

Walks == UNION {[1..k -> WalkEntries] : k \in 0..MaxEntries}

\* fnArg is one search request and the tree it walks; fnRes is the loop:
\* the entries taken from the walker, the results and files_searched, the
\* lines and names tested, and whether the command has returned.
SearchInit ==
    /\ InitIdle
    /\ fnArg \in {[cmd |-> c, max_results |-> m, walk |-> w] :
                    c \in {"search_files", "search_file_names"},
                    m \in 0..MaxLimit, w \in Walks}
    /\ fnRes = [i |-> 0, results |-> <<>>, files_searched |-> 0, tested |-> 0,
                returned |-> FALSE]

\* The loop over content.lines() from line k on: the results and the
\* number of lines tested; it breaks after a push that reaches max_results.
RECURSIVE scan_lines(_, _, _, _, _, _)
scan_lines(lines, k, file, results, tested, max_results) ==
    IF k > Len(lines) THEN [results |-> results, tested |-> tested]
    ELSE IF lines[k]
         THEN IF Len(results) + 1 >= max_results
              THEN [results |-> Append(results, <<file, k>>), tested |-> tested + 1]
              ELSE scan_lines(lines, k + 1, file, Append(results, <<file, k>>),
                              tested + 1, max_results)
    ELSE scan_lines(lines, k + 1, file, results, tested + 1, max_results)

\* One iteration of `for result in walker` in search_files; the loop is
\* left when the iterator ends or the check after a file breaks.
search_files_entry ==
    /\ fnArg.cmd = "search_files"
    /\ ~fnRes.returned
    /\ fnRes.i < Len(fnArg.walk)
    /\ LET e == fnArg.walk[fnRes.i + 1]
           sc == scan_lines(e.lines, 1, fnRes.i + 1, fnRes.results, fnRes.tested,
                            fnArg.max_results)
       IN  fnRes' =
             IF e.kind = "skip" THEN [fnRes EXCEPT !.i = @ + 1]
             ELSE IF ~e.readable
                  THEN [fnRes EXCEPT !.i = @ + 1, !.files_searched = @ + 1]
             ELSE [i |-> fnRes.i + 1,
                   results |-> sc.results,
                   files_searched |-> fnRes.files_searched + 1,
                   tested |-> sc.tested,
                   returned |-> Len(sc.results) >= fnArg.max_results]
    /\ UNCHANGED <<fnArg, progVars>>

\* One iteration of `for result in walker` in search_file_names.
search_file_names_entry ==
    /\ fnArg.cmd = "search_file_names"
    /\ ~fnRes.returned
    /\ fnRes.i < Len(fnArg.walk)
    /\ LET e == fnArg.walk[fnRes.i + 1]
       IN  fnRes' =
             IF e.kind = "skip" THEN [fnRes EXCEPT !.i = @ + 1]
             ELSE IF e.name
                  THEN [fnRes EXCEPT !.i = @ + 1,
                                     !.results = Append(@, <<fnRes.i + 1, 0>>),
                                     !.tested = @ + 1,
                                     !.returned = Len(fnRes.results) + 1 >= fnArg.max_results]
             ELSE [fnRes EXCEPT !.i = @ + 1, !.tested = @ + 1]
    /\ UNCHANGED <<fnArg, progVars>>

\* The walker is exhausted: Ok(..) is returned.
search_return ==
    /\ ~fnRes.returned
    /\ fnRes.i = Len(fnArg.walk)
    /\ fnRes' = [fnRes EXCEPT !.returned = TRUE]
    /\ UNCHANGED <<fnArg, progVars>>

SearchNext ==
    \/ search_files_entry
    \/ search_file_names_entry
    \/ search_return

\* The two search commands over every small tree and limit.
SearchSpec == SearchInit /\ [][SearchNext]_vars

\* C34: a search never holds more than max_results results, also for
\* max_results = 0, and once a result has brought it to max_results it
\* takes no further entry from the walker and tests no further line or name.
C34_AtMostMaxResults ==
    /\ [](Len(fnRes.results) <= fnArg.max_results)
    /\ [][(fnRes.results # <<>> /\ Len(fnRes.results) >= fnArg.max_results) =>
            (fnRes'.i = fnRes.i /\ fnRes'.tested = fnRes.tested)]_vars

----------------------------------------------------------------------------

\* The record that the id of call c named when the call picked it is no
\* longer in the registry.
RecordGone(c) ==
    \A id \in inpId[c] :
        id \notin DOMAIN processes \/ processes[id].writer.run \notin inpSeen[c]

\* C35: an input call whose record is removed between its pick of the id
\* and its fetch of the writer gets no writer, returns "Process writer
\* unavailable", writes nothing and emits nothing; and a call only ever
\* locks and writes the channel of the process whose id it picked.
C35_RemovedBetweenLookups ==
    /\ [][\A c \in Callers :
            /\ (inp[c] = "get_pty" /\ inp'[c] # "get_pty" /\ RecordGone(c)) =>
                    inp'[c] = "get_stdin"
            /\ (inp[c] = "get_stdin" /\ inp'[c] # "get_stdin" /\ RecordGone(c)) =>
                    /\ inpRet'[c] = "Process writer unavailable"
                    /\ events' = events
                    /\ chan' = chan
       ]_vars
    /\ [](\A c \in Callers :
            /\ inp[c] \in {"lock", "write", "emit"} => TheWriter(c).run \in inpSeen[c]
            /\ \A r \in Runs : Written(c, r) > 0 => r \in inpSeen[c])

----------------------------------------------------------------------------

\* C36: kill_all issues its kill only to pids of children that have not
\* been waited for: no record that is in the registry when kill_all runs
\* carries the pid of a child that was already reaped.
C36_NoKillAfterReap ==
    [][cancel_streaming_processes =>
        \A r \in Runs :
            OsPid(r) \in kill_all_pids(processes) => child[r].st # "reaped"]_vars

\* kill_all has drained the record of run r: its pid was among the pids
\* kill_all signalled.
Drained(r) == kill_arg(OsPid(r)) \in sig

\* C37: a completion callback that runs after kill_all drained its run's
\* record completes normally: its registry removal changes nothing, past
\* the unlink the temp prompt file does not exist, and once the callback
\* is done exactly one "complete" event of the run has been emitted.
C37_CompletesAfterDrain ==
    /\ [][\A r \in Runs : (Drained(r) /\ WaiterRemove(r)) =>
            processes' = processes]_vars
    /\ [][\A r \in Runs : (Drained(r) /\ WaiterUnlink(r)) =>
            TempPath(TheId(r)) \notin DOMAIN files']_vars
    /\ [](\A r \in Runs : (Drained(r) /\ sinkUp /\ wt[r] = "done") =>
            CompleteCount(r) = 1)

====
